---- MODULE Spec2Model ----
(***************************************************************************)
(* Model of ikflow's artifact resolution (ikflow/model_loading.py) and of  *)
(* the training entry script (train.py).                                   *)
(*                                                                         *)
(* Part A: processes sharing one file system call download_model and       *)
(*         get_ik_solver.  urlretrieve is unfolded into the steps it takes *)
(*         on the file system: open the connection, open(filename, 'wb'),  *)
(*         copy block by block, return.                                    *)
(* Part B: one run of the training script, statement group by statement    *)
(*         group.                                                          *)
(***************************************************************************)
EXTENDS Integers, Sequences, FiniteSets, TLC

\* ------------------------------------------------------------------ bounds
NumProcs == 2
MaxBlocks == 2

Procs == 1..NumProcs

None == "None"

\* ------------------------------------------------- Part A: static data
\* ikflow.config.MODELS_DIR, the default of download_dir
MODELS_DIR == "models"

\* values the download_dir argument takes: left out, or the cache directory
\* spelled out
DownloadDirArgs == {None, MODELS_DIR}

\* A url is the sequence of its "/"-separated segments.  Two urls share the
\* last segment, one has a segment of its own.
URLs ==
  { <<"https:", "", "host1", "a.pkl">>,
    <<"https:", "", "host2", "a.pkl">>,
    <<"https:", "", "host1", "b.pkl">> }

\* url.split("/")[-1]
model_filename(url) == url[Len(url)]

\* os.path.join(download_dir, model_name)
PathJoin(dir, name) == <<dir, name>>

Dirs == {MODELS_DIR} \cup (DownloadDirArgs \ {None})
Filenames == { model_filename(u) : u \in URLs }
Paths == { PathJoin(d, n) : d \in Dirs, n \in Filenames }

\* A file is a sequence of blocks; a block written from url u is u itself,
\* a block no writer has filled is a Hole.
Hole == <<>>
NoFile == "NoFile"

\* what the server at url sends: MaxBlocks blocks
Artifact(url) == [i \in 1..MaxBlocks |-> url]

\* tfp.write(block) of a writer that has written k blocks so far
WriteAt(f, k, b) ==
  IF k < Len(f)
  THEN [f EXCEPT ![k + 1] = b]
  ELSE f \o [i \in 1..(k - Len(f)) |-> Hole] \o <<b>>

VARIABLES
  dirs,       \* the directories that exist
  fs,         \* Paths -> NoFile or the file's blocks
  pc,         \* per process: where it is
  caller,     \* per process: "direct" (download_model called) or "solver"
  url,        \* per process: the url argument of the running/last call
  dir,        \* per process: download_dir after defaulting
  off,        \* per process: blocks copied by its urlretrieve
  model_name, \* per process: argument of get_ik_solver
  result,     \* what the step just taken handed back to the caller of
              \* download_model or get_ik_solver, NoResult when it ended no call
  faulty,     \* ghost: some transfer has failed
  firstPath,  \* ghost: <<url, dir>> -> path the first successful call returned
  bodyTransfers \* ghost: Paths -> number of times a response body was streamed

varsA == <<dirs, fs, pc, caller, url, dir, off, model_name, result,
           faulty, firstPath, bodyTransfers>>

\* Part B: one run of train.py
VARIABLES
  tpc,              \* the statement group the script is at
  args,             \* parser.parse_args(): dest -> value
  env,              \* os.getenv("SLURM_ARRAY_TASK_ID")
  logging_settings,
  eval_settings,
  save_settings,
  robot_model,
  events,           \* the calls made so far, in order: get_robot,
                    \* IkflowModel, sleep, train
  sleeps,           \* the seconds passed to time.sleep, one entry per call
  error             \* the exception that ended the run, None when none did

varsB == <<tpc, args, env, logging_settings, eval_settings, save_settings,
           robot_model, events, sleeps, error>>

vars == <<varsA, varsB>>

\* a settings variable the script has not assigned yet
Unset == [unset |-> TRUE]

\* the script has not been started
NotStartedB ==
  /\ tpc = "not_started"
  /\ args = Unset
  /\ env = [set |-> FALSE, s |-> <<>>]
  /\ logging_settings = Unset
  /\ eval_settings = Unset
  /\ save_settings = Unset
  /\ robot_model = None
  /\ events = <<>>
  /\ sleeps = <<>>
  /\ error = None

save_filepath(p) == PathJoin(dir[p], model_filename(url[p]))

\* the existence test looks somewhere the download never writes
isfile_elsewhere(path) == FALSE

\* os.path.isfile
isfile(path) == fs[path] # NoFile

\* fn: the function the caller called; value: the path returned or the error
\* raised; url: the url resolved; line: the return statement of
\* download_model that was taken; hp: the hyper-parameter object returned
NoResult ==
  [kind |-> "none", proc |-> 0, fn |-> None, value |-> None, url |-> None,
   line |-> 0, hp |-> None]
Returned(p, f, v, u, l, h) ==
  [kind |-> "returned", proc |-> p, fn |-> f, value |-> v, url |-> u,
   line |-> l, hp |-> h]
Raised(p, f, e) ==
  [kind |-> "raised", proc |-> p, fn |-> f, value |-> e, url |-> None,
   line |-> 0, hp |-> None]

InitA ==
  /\ dirs = {}
  /\ fs = [x \in Paths |-> NoFile]
  /\ pc = [p \in Procs |-> "idle"]
  /\ caller = [p \in Procs |-> "direct"]
  /\ url = [p \in Procs |-> None]
  /\ dir = [p \in Procs |-> None]
  /\ off = [p \in Procs |-> 0]
  /\ model_name = [p \in Procs |-> None]
  /\ result = NoResult
  /\ faulty = FALSE
  /\ firstPath = [k \in URLs \X Dirs |-> None]
  /\ bodyTransfers = [x \in Paths |-> 0]

\* --------------------------------------------------- Part A: the registry
\* yaml values carry their type
YStr(s) == [type |-> "str", v |-> s]
YInt(n) == [type |-> "int", v |-> n]

\* model_descriptions.yaml as loaded at import: name -> entry.  Every entry
\* is a dict; the entries differ in the keys and robot names they carry.
MODEL_DESCRIPTIONS ==
  ( "panda_tpm" :>
      ( "model_weights_url" :> YStr(<<"https:", "", "host1", "a.pkl">>) @@
        "robot_name" :> YStr("panda_arm") @@
        "nb_nodes" :> YInt(12) ) ) @@
  ( "panda_lite" :>
      ( "model_weights_url" :> YStr(<<"https:", "", "host2", "a.pkl">>) @@
        "robot_name" :> YStr("panda_arm") @@
        "nb_nodes" :> YInt(6) @@
        "dim_latent_space" :> YInt(9) ) ) @@
  ( "ghost_tpm" :>
      ( "model_weights_url" :> YStr(<<"https:", "", "host1", "b.pkl">>) @@
        "robot_name" :> YStr("ghost") ) ) @@
  ( "numbered" :>
      ( "model_weights_url" :> YStr(<<"https:", "", "host1", "b.pkl">>) @@
        "robot_name" :> YInt(7) ) ) @@
  ( "no_robot" :>
      ( "model_weights_url" :> YStr(<<"https:", "", "host1", "b.pkl">>) ) )

\* the names get_ik_solver is called with: the registry's and one it lacks
ModelNames == DOMAIN MODEL_DESCRIPTIONS \cup {"absent"}

\* the attributes IkflowModelParameters declares (train.py assigns each)
DeclaredFields ==
  { "coupling_layer", "nb_nodes", "dim_latent_space", "coeff_fn_config",
    "coeff_fn_internal_size", "rnvp_clamp", "softflow_noise_scale",
    "y_noise_scale", "zeros_noise_scale", "softflow_enabled" }

\* IkflowModelParameters(): every declared attribute at its default
IkflowModelParameters == [k \in DeclaredFields |-> YStr("default")]

\* d.update(m)
DictUpdate(d, m) ==
  [k \in DOMAIN d \cup DOMAIN m |-> IF k \in DOMAIN m THEN m[k] ELSE d[k]]

\* hyper_parameters.__dict__.update(hparams): lines 65-66
BuildHyperParameters(hparams) == DictUpdate(IkflowModelParameters, hparams)

\* the robots get_robot knows
KnownRobots == {"panda_arm"}

\* lines 51-55: None when they pass, else the error they raise
LookupError(name) ==
  IF name \notin DOMAIN MODEL_DESCRIPTIONS THEN "KeyError"
  ELSE LET e == MODEL_DESCRIPTIONS[name] IN
       IF "model_weights_url" \notin DOMAIN e THEN "KeyError"
       ELSE IF "robot_name" \notin DOMAIN e THEN "KeyError"
       ELSE IF e["robot_name"].type # "str" THEN "AssertionError"
       ELSE None

\* a file that holds everything some server with that file name sends
IsCompleteArtifact(path) ==
  /\ isfile(path)
  /\ \E u \in URLs : model_filename(u) = path[2] /\ fs[path] = Artifact(u)

\* torch.load of the weight file inside load_state_dict: a file cut short
\* or with holes does not unpickle
Loadable(path) == IsCompleteArtifact(path)

\* --------------------------------------------------- Part A: operations
\* the locals of a call that is over
Forget(f, p, v) == [f EXCEPT ![p] = v]

\* download_model returns save_filepath to its caller (lines 31 and 33)
DownloadReturns(p, u, dd, who, line) ==
  LET path == PathJoin(dd, model_filename(u)) IN
  /\ firstPath' = IF firstPath[<<u, dd>>] = None
                  THEN [firstPath EXCEPT ![<<u, dd>>] = path]
                  ELSE firstPath
  /\ off' = Forget(off, p, 0)
  /\ IF who = "solver"
     THEN /\ pc' = [pc EXCEPT ![p] = "build"]
          /\ result' = NoResult
          /\ url' = [url EXCEPT ![p] = u]
          /\ dir' = [dir EXCEPT ![p] = dd]
          /\ caller' = [caller EXCEPT ![p] = who]
     ELSE /\ pc' = [pc EXCEPT ![p] = "idle"]
          /\ result' = Returned(p, "download_model", path, u, line, None)
          /\ url' = Forget(url, p, None)
          /\ dir' = Forget(dir, p, None)
          /\ caller' = Forget(caller, p, "direct")

\* an exception leaves download_model, and get_ik_solver when that called
\* it: neither has a try block
Raises(p, e) ==
  /\ pc' = [pc EXCEPT ![p] = "idle"]
  /\ result' = Raised(p, IF caller[p] = "solver" THEN "get_ik_solver"
                          ELSE "download_model", e)
  /\ url' = Forget(url, p, None)
  /\ dir' = Forget(dir, p, None)
  /\ off' = Forget(off, p, 0)
  /\ caller' = Forget(caller, p, "direct")
  /\ model_name' = Forget(model_name, p, None)

\* download_model lines 23-31: default the directory, safe_mkdir, derive
\* save_filepath, return it when the file exists
download_model(p, u, darg, who) ==
  LET dd == IF darg = None THEN MODELS_DIR ELSE darg
      path == PathJoin(dd, model_filename(u))
  IN /\ dirs' = dirs \cup {dd}
     /\ IF isfile(path)
        THEN DownloadReturns(p, u, dd, who, 31)
        ELSE /\ pc' = [pc EXCEPT ![p] = "urlretrieve"]
             /\ result' = NoResult
             /\ url' = [url EXCEPT ![p] = u]
             /\ dir' = [dir EXCEPT ![p] = dd]
             /\ caller' = [caller EXCEPT ![p] = who]
             /\ UNCHANGED <<firstPath, off>>
     /\ UNCHANGED <<fs, faulty, bodyTransfers>>

\* a process calls download_model(url, download_dir)
DirectCall(p) ==
  /\ UNCHANGED varsB
  /\ pc[p] = "idle"
  /\ \E u \in URLs, darg \in DownloadDirArgs : download_model(p, u, darg, "direct")
  /\ UNCHANGED model_name

\* a process calls get_ik_solver(name): lines 51-57
get_ik_solver(p) ==
  /\ UNCHANGED varsB
  /\ pc[p] = "idle"
  /\ \E name \in ModelNames :
       IF LookupError(name) # None
       THEN /\ pc' = pc
            /\ result' = Raised(p, "get_ik_solver", LookupError(name))
            /\ UNCHANGED <<dirs, fs, url, dir, off, caller, model_name, faulty, firstPath, bodyTransfers>>
       ELSE /\ model_name' = [model_name EXCEPT ![p] = name]
            /\ download_model(p, MODEL_DESCRIPTIONS[name]["model_weights_url"].v,
                              None, "solver")

\* urlretrieve: urlopen(url) fails; no file is touched
UrlOpenFails(p) ==
  /\ UNCHANGED varsB
  /\ pc[p] = "urlretrieve"
  /\ Raises(p, "URLError")
  /\ faulty' = TRUE
  /\ UNCHANGED <<dirs, fs, firstPath, bodyTransfers>>

\* urlretrieve: urlopen(url) succeeds and open(filename, 'wb') creates the
\* file, or empties the one that is there
OpenFile(p) ==
  /\ UNCHANGED varsB
  /\ pc[p] = "urlretrieve"
  /\ fs' = [fs EXCEPT ![save_filepath(p)] = <<>>]
  /\ off' = [off EXCEPT ![p] = 0]
  /\ pc' = [pc EXCEPT ![p] = "copy"]
  /\ bodyTransfers' = [bodyTransfers EXCEPT ![save_filepath(p)] = @ + 1]
  /\ result' = NoResult
  /\ UNCHANGED <<dirs, caller, url, dir, model_name, faulty, firstPath>>

\* urlretrieve: block = fp.read(bs); tfp.write(block)
CopyBlock(p) ==
  /\ UNCHANGED varsB
  /\ pc[p] = "copy"
  /\ off[p] < MaxBlocks
  /\ fs' = [fs EXCEPT ![save_filepath(p)] =
              WriteAt(@, off[p], Artifact(url[p])[off[p] + 1])]
  /\ off' = [off EXCEPT ![p] = @ + 1]
  /\ result' = NoResult
  /\ UNCHANGED <<dirs, pc, caller, url, dir, model_name, faulty, firstPath, bodyTransfers>>

\* urlretrieve: the connection ends before the last block; what was
\* written stays on disk
TransferFails(p) ==
  /\ UNCHANGED varsB
  /\ pc[p] = "copy"
  /\ off[p] < MaxBlocks
  /\ Raises(p, "ContentTooShortError")
  /\ faulty' = TRUE
  /\ UNCHANGED <<dirs, fs, firstPath, bodyTransfers>>

\* urlretrieve returns after the last block; line 33 returns save_filepath
RetrieveReturns(p) ==
  /\ UNCHANGED varsB
  /\ pc[p] = "copy"
  /\ off[p] = MaxBlocks
  /\ DownloadReturns(p, url[p], dir[p], caller[p], 33)
  /\ UNCHANGED <<dirs, fs, model_name, faulty, bodyTransfers>>

\* get_ik_solver lines 58-67: the isfile assertion, get_robot, the
\* hyper-parameter object, the solver
SolverBuild(p) ==
  /\ UNCHANGED varsB
  /\ pc[p] = "build"
  /\ LET robot_name == MODEL_DESCRIPTIONS[model_name[p]]["robot_name"].v IN
     IF ~isfile(save_filepath(p)) THEN Raises(p, "AssertionError")
     ELSE IF robot_name \notin KnownRobots THEN Raises(p, "ValueError")
     ELSE /\ pc' = [pc EXCEPT ![p] = "load"]
          /\ result' = NoResult
          /\ UNCHANGED <<url, dir, off, caller, model_name>>
  /\ UNCHANGED <<dirs, fs, faulty, firstPath, bodyTransfers>>

\* get_ik_solver lines 68-69: load the weights, return the pair
SolverLoad(p) ==
  /\ UNCHANGED varsB
  /\ pc[p] = "load"
  /\ IF Loadable(save_filepath(p))
     THEN /\ pc' = [pc EXCEPT ![p] = "idle"]
          /\ result' = Returned(p, "get_ik_solver", save_filepath(p), url[p], 69,
                 BuildHyperParameters(MODEL_DESCRIPTIONS[model_name[p]]))
          /\ url' = Forget(url, p, None)
          /\ dir' = Forget(dir, p, None)
          /\ caller' = Forget(caller, p, "direct")
          /\ model_name' = Forget(model_name, p, None)
          /\ UNCHANGED off
     ELSE Raises(p, "UnpicklingError")
  /\ UNCHANGED <<dirs, fs, faulty, firstPath, bodyTransfers>>

\* no call is running
AllIdle == \A q \in Procs : pc[q] = "idle"

\* the steps of a download_model call that is under way
DownloadStep(p) ==
  \/ UrlOpenFails(p)
  \/ OpenFile(p)
  \/ CopyBlock(p)
  \/ TransferFails(p)
  \/ RetrieveReturns(p)

\* concurrent processes calling download_model
Next ==
  \E p \in Procs :
    \/ DirectCall(p)
    \/ DownloadStep(p)

\* the cache is empty, no call is running, the training script is not run
InitLoading == InitA /\ NotStartedB

Spec == InitLoading /\ [][Next]_vars

\* one call after the other: a call starts only when no call is running
SeqDirectCall(p) == AllIdle /\ DirectCall(p)

NextSeq ==
  \E p \in Procs :
    \/ SeqDirectCall(p)
    \/ DownloadStep(p)

SpecSeq == InitLoading /\ [][NextSeq]_vars

\* concurrent processes calling get_ik_solver
NextSolver ==
  \E p \in Procs :
    \/ get_ik_solver(p)
    \/ DownloadStep(p)
    \/ SolverBuild(p)
    \/ SolverLoad(p)

SpecSolver == InitLoading /\ [][NextSolver]_vars

\* ------------------------------------------------ Part B: train.py data
SMOKE_TEST == FALSE
DEFAULT_N_NODES == 6
DEFAULT_DIM_LATENT_SPACE == 8
DEFAULT_COEFF_FN_INTERNAL_SIZE == 256
DEFAULT_COEFF_FN_CONFIG == 3
DEFAULT_BATCH_SIZE == 64
DEFAULT_N_EPOCHS == 100
DEFAULT_STEP_LR_EVERY_K == 2500000 \div 64
DEFAULT_ROBOT == "panda_arm"
DEFAULT_eval_every_k == 25000
DEFAULT_LOG_TR_STATS_EVERY == 20000
DEFAULT_LOG_DIST_PLOT_EVERY == 2500000 \div 64

\* the periods and sample counts written into the smoke-test branch
SMOKE_LOG_LOSS_EVERY_K == 50
SMOKE_EVAL_EVERY_K == 250
SMOKE_LOG_DIST_PLOT_EVERY == 100
SMOKE_N_POSES == 50
SMOKE_N_SAMPLES == 25
FULL_N_POSES == 750
FULL_N_SAMPLES == 250

\* seconds of sleep per job index
SLEEP_PER_JOB == 5

\* the namespace parse_args returns when only --model_type is given: one
\* attribute per add_argument call, floats kept as their literals
DefaultArgs ==
  "robot" :> DEFAULT_ROBOT @@
  "test_description" :> "not-set" @@
  "model_type" :> "ikflow" @@
  "coupling_layer" :> "glow" @@
  "rnvp_clamp" :> "2.5" @@
  "softflow_noise_scale" :> "0.001" @@
  "softflow_enabled" :> TRUE @@
  "nb_nodes" :> DEFAULT_N_NODES @@
  "dim_latent_space" :> DEFAULT_DIM_LATENT_SPACE @@
  "coeff_fn_config" :> DEFAULT_COEFF_FN_CONFIG @@
  "coeff_fn_internal_size" :> DEFAULT_COEFF_FN_INTERNAL_SIZE @@
  "y_noise_scale" :> "1e-7" @@
  "zeros_noise_scale" :> "1e-3" @@
  "batch_size" :> DEFAULT_BATCH_SIZE @@
  "gamma" :> "0.9794578299341784" @@
  "learning_rate" :> "2.5e-4" @@
  "gradient_clamp" :> "5.0" @@
  "n_epochs" :> DEFAULT_N_EPOCHS @@
  "step_lr_every_k" :> DEFAULT_STEP_LR_EVERY_K @@
  "save_if_mean_l2_error_below" :> "0.1" @@
  "save_if_mean_angular_error_below" :> "3.141592" @@
  "eval_every_k" :> DEFAULT_eval_every_k @@
  "log_training_stats_every" :> DEFAULT_LOG_TR_STATS_EVERY @@
  "log_dist_plot_every" :> DEFAULT_LOG_DIST_PLOT_EVERY @@
  "log_dist_plots" :> FALSE @@
  "smoke_test" :> FALSE

\* the values the command line gives the flags the run policies depend on
ModelTypeFlags == {"ikflow", "mdn", "rnvp"}
RobotFlags == {DEFAULT_ROBOT, "unknown_arm"}
LogStatsFlags == {DEFAULT_LOG_TR_STATS_EVERY, SMOKE_LOG_LOSS_EVERY_K}
EvalEveryFlags == {DEFAULT_eval_every_k, SMOKE_EVAL_EVERY_K}
DistPlotFlags == {DEFAULT_LOG_DIST_PLOT_EVERY, SMOKE_LOG_DIST_PLOT_EVERY}
L2Flags == {"0.1", "0.05"}
AngFlags == {"3.141592", "0.5"}

\* what os.getenv returns: None when the variable is unset, else its string,
\* given by its characters
EnvUnset == [set |-> FALSE, s |-> <<>>]
EnvStr(s) == [set |-> TRUE, s |-> s]

EnvValues ==
  { EnvUnset, EnvStr(<<"0">>), EnvStr(<<"1">>), EnvStr(<<"3">>),
    EnvStr(<<"1", "2">>), EnvStr(<<"-", "1">>), EnvStr(<<"x">>) }

\* the names train.py binds at module level (imports, lines 1-22): the
\* `from train.training_parameters import ...` line binds the two classes,
\* not the name train
BoundNames ==
  { "inf", "os", "argparse", "time", "torch", "random", "np",
    "boolean_string", "set_seed", "get_robot", "IkflowModel",
    "IkflowModelParameters", "TrainingConfig", "EvaluationSettings",
    "LoggingSettings", "SaveSettings", "wandb" }

\* IkflowModel.nn_model_type
IkflowModel_nn_model_type == "ikflow"

\* int(s) for a string s: ok and the value, or not ok (ValueError)
DigitValue ==
  "0" :> 0 @@ "1" :> 1 @@ "2" :> 2 @@ "3" :> 3 @@ "4" :> 4 @@
  "5" :> 5 @@ "6" :> 6 @@ "7" :> 7 @@ "8" :> 8 @@ "9" :> 9

RECURSIVE DigitsValue(_)
DigitsValue(s) ==
  IF Len(s) = 0 THEN 0
  ELSE 10 * DigitsValue(SubSeq(s, 1, Len(s) - 1)) + DigitValue[s[Len(s)]]

AllDigits(s) == Len(s) > 0 /\ \A i \in 1..Len(s) : s[i] \in DOMAIN DigitValue

ParseInt(s) ==
  IF AllDigits(s) THEN [ok |-> TRUE, v |-> DigitsValue(s)]
  ELSE IF Len(s) > 1 /\ s[1] = "-" /\ AllDigits(Tail(s))
       THEN [ok |-> TRUE, v |-> 0 - DigitsValue(Tail(s))]
       ELSE [ok |-> FALSE, v |-> 0]

\* lines 169-174: the sleeps made and the exception that leaves the block.
\* int(None) raises the TypeError the block catches; int of a non-number
\* and a negative sleep raise ValueError, which it does not catch.
Stagger(e) ==
  IF ~e.set THEN [sleeps |-> <<>>, error |-> None]
  ELSE IF ~ParseInt(e.s).ok THEN [sleeps |-> <<>>, error |-> "ValueError"]
  ELSE IF SLEEP_PER_JOB * ParseInt(e.s).v < 0
       THEN [sleeps |-> <<>>, error |-> "ValueError"]
       ELSE [sleeps |-> <<SLEEP_PER_JOB * ParseInt(e.s).v>>, error |-> None]

\* the second assertion is missing
ModelTypeError_mdn_passes(model_type) ==
  IF model_type \notin {"ikflow", "mdn"} THEN "AssertionError" ELSE None

\* lines 113-115: the assertion that fails for this model type, None when
\* both pass
ModelTypeError(model_type) ==
  IF model_type \notin {"ikflow", "mdn"} THEN "AssertionError"
  ELSE IF model_type = "mdn"
       THEN "AssertionError: Training with mdn is currently unimplemented"
       ELSE None

\* the smoke-test branch takes the periods from the flags as well
LoggingSettings_from_flags(a) ==
  [wandb_enabled |-> TRUE,
   log_loss_every_k |-> a["log_training_stats_every"],
   eval_every_k |-> a["eval_every_k"],
   log_dist_plot_every |-> a["log_dist_plot_every"]]

\* lines 117-138
LoggingSettings(a) ==
  IF SMOKE_TEST \/ a["smoke_test"]
  THEN [wandb_enabled |-> TRUE,
        log_loss_every_k |-> SMOKE_LOG_LOSS_EVERY_K,
        eval_every_k |-> SMOKE_EVAL_EVERY_K,
        log_dist_plot_every |-> SMOKE_LOG_DIST_PLOT_EVERY]
  ELSE [wandb_enabled |-> TRUE,
        log_loss_every_k |-> a["log_training_stats_every"],
        eval_every_k |-> a["eval_every_k"],
        log_dist_plot_every |-> a["log_dist_plot_every"]]

EvaluationSettings(a) ==
  IF SMOKE_TEST \/ a["smoke_test"]
  THEN [eval_enabled |-> TRUE, n_poses_per_evaluation |-> SMOKE_N_POSES,
        n_samples_per_pose |-> SMOKE_N_SAMPLES]
  ELSE [eval_enabled |-> TRUE, n_poses_per_evaluation |-> FULL_N_POSES,
        n_samples_per_pose |-> FULL_N_SAMPLES]

\* SaveSettings(save_model=False) leaves the thresholds at the class's own
\* defaults
SaveSettings(a) ==
  IF SMOKE_TEST \/ a["smoke_test"]
  THEN [save_model |-> FALSE,
        save_if_mean_l2_error_below |-> "class default",
        save_if_mean_angular_error_below |-> "class default"]
  ELSE [save_model |-> TRUE,
        save_if_mean_l2_error_below |-> a["save_if_mean_l2_error_below"],
        save_if_mean_angular_error_below |-> a["save_if_mean_angular_error_below"]]

\* lines 143-192, from the training configuration to the call of train: the
\* calls made, the seconds slept and the exception that ends the run.
\* Reading an attribute the namespace lacks raises AttributeError, reading a
\* name the module never bound raises NameError.
ScriptTail(a, e) ==
  LET st == Stagger(e)
      slept == IF st.sleeps # <<>> THEN <<"sleep">> ELSE <<>>
  IN
  IF "dataset_tag" \notin DOMAIN a
  THEN [events |-> <<>>, sleeps |-> <<>>, error |-> "AttributeError"]
  ELSE IF a["model_type"] # IkflowModel_nn_model_type
  THEN \* hyper_parameters is never assigned: line 176 cannot read it
       [events |-> slept, sleeps |-> st.sleeps,
        error |-> IF st.error # None THEN st.error ELSE "NameError"]
  ELSE IF st.error # None
  THEN [events |-> <<"IkflowModel">>, sleeps |-> <<>>, error |-> st.error]
  ELSE IF "train" \notin BoundNames
  THEN [events |-> <<"IkflowModel">> \o slept, sleeps |-> st.sleeps,
        error |-> "NameError"]
  ELSE [events |-> <<"IkflowModel">> \o slept \o <<"train">>,
        sleeps |-> st.sleeps, error |-> None]

\* line 111: the arguments are parsed; nothing else has run
InitB ==
  /\ tpc = "check"
  /\ \E mt \in ModelTypeFlags, rb \in RobotFlags, sm \in BOOLEAN,
        ls \in LogStatsFlags, ev \in EvalEveryFlags, dp \in DistPlotFlags,
        l2 \in L2Flags, an \in AngFlags :
       args = DictUpdate(DefaultArgs,
                "model_type" :> mt @@ "robot" :> rb @@ "smoke_test" :> sm @@
                "log_training_stats_every" :> ls @@ "eval_every_k" :> ev @@
                "log_dist_plot_every" :> dp @@
                "save_if_mean_l2_error_below" :> l2 @@
                "save_if_mean_angular_error_below" :> an)
  /\ env \in EnvValues
  /\ logging_settings = Unset
  /\ eval_settings = Unset
  /\ save_settings = Unset
  /\ robot_model = None
  /\ events = <<>>
  /\ sleeps = <<>>
  /\ error = None

\* --------------------------------------------- Part B: the script's steps
\* lines 113-115
CheckModelType ==
  /\ tpc = "check"
  /\ IF ModelTypeError(args["model_type"]) # None
     THEN /\ tpc' = "exit"
          /\ error' = ModelTypeError(args["model_type"])
     ELSE /\ tpc' = "settings"
          /\ UNCHANGED error
  /\ UNCHANGED <<args, env, logging_settings, eval_settings, save_settings,
                 robot_model, events, sleeps>>
  /\ UNCHANGED varsA

\* lines 117-138
BuildSettings ==
  /\ tpc = "settings"
  /\ logging_settings' = LoggingSettings(args)
  /\ eval_settings' = EvaluationSettings(args)
  /\ save_settings' = SaveSettings(args)
  /\ tpc' = "robot"
  /\ UNCHANGED <<args, env, robot_model, events, sleeps, error>>
  /\ UNCHANGED varsA

\* line 141
GetRobot ==
  /\ tpc = "robot"
  /\ events' = Append(events, "get_robot")
  /\ IF args["robot"] \in KnownRobots
     THEN /\ robot_model' = args["robot"]
          /\ tpc' = "config"
          /\ UNCHANGED error
     ELSE /\ tpc' = "exit"
          /\ error' = "ValueError"
          /\ UNCHANGED robot_model
  /\ UNCHANGED <<args, env, logging_settings, eval_settings, save_settings, sleeps>>
  /\ UNCHANGED varsA

\* lines 143-192
ConfigureAndTrain ==
  /\ tpc = "config"
  /\ events' = events \o ScriptTail(args, env).events
  /\ sleeps' = sleeps \o ScriptTail(args, env).sleeps
  /\ error' = ScriptTail(args, env).error
  /\ tpc' = "exit"
  /\ UNCHANGED <<args, env, logging_settings, eval_settings, save_settings,
                 robot_model>>
  /\ UNCHANGED varsA

NextTrain ==
  \/ CheckModelType
  \/ BuildSettings
  \/ GetRobot
  \/ ConfigureAndTrain

\* the script starts; nothing is calling into model_loading
InitTrain == InitA /\ InitB

SpecTrain == InitTrain /\ [][NextTrain]_vars

\* ------------------------------------------------------ Part A: claims
\* the processes inside urlretrieve for path
Writers(path) == { q \in Procs : pc[q] \in {"urlretrieve", "copy"} /\ save_filepath(q) = path }

\* only url u has left anything in the file at path or is being written there
SingleSource(path, u) ==
  /\ \A q \in Writers(path) : url[q] = u
  /\ isfile(path) => \A i \in 1..Len(fs[path]) : fs[path][i] \in {Hole, u}

\* C1: when processes call download_model concurrently for one url and one
\* directory and no transfer fails, then (a) a path handed back by
\* download_model, through either return statement, names a file holding the
\* complete artifact of that url, (b) the file never holds a hole left by
\* one writer emptying the file under another, and (c) once every call is
\* over the file that exists is the complete artifact.
C1_ConcurrentResolversConverge ==
  \A path \in Paths : \A u \in URLs :
    (~faulty /\ SingleSource(path, u)) =>
      /\ (result.kind = "returned" /\ result.value = path /\ result.url = u)
            => (isfile(path) /\ fs[path] = Artifact(u))
      /\ isfile(path) => \A i \in 1..Len(fs[path]) : fs[path][i] # Hole
      /\ (AllIdle /\ isfile(path)) => fs[path] = Artifact(u)

\* C9: in any sequence of download_model calls, failed ones included, every
\* path download_model returns names a file holding a complete artifact.
C9_ReturnedPathIsComplete ==
  (result.kind = "returned" /\ result.fn = "download_model")
     => IsCompleteArtifact(result.value)

\* C2: with calls made one after the other, (a) no call for a url and
\* directory that an earlier call already resolved successfully reaches the
\* network, (b) every successful call for that url and directory returns the
\* path the first one returned, and (c) the body of a response is streamed
\* into a cache path at most once in total.
C2_Idempotent ==
  /\ \A p \in Procs :
       pc[p] \in {"urlretrieve", "copy"} => firstPath[<<url[p], dir[p]>>] = None
  /\ (result.kind = "returned" /\ result.fn = "download_model")
       => result.value = firstPath[<<result.url, result.value[1]>>]
  /\ \A path \in Paths : bodyTransfers[path] <= 1

\* a later call returns the cached path through line 31 after one transfer
C2_Witness ==
  /\ result.kind = "returned"
  /\ result.fn = "download_model"
  /\ result.line = 31
  /\ bodyTransfers[result.value] = 1
  /\ isfile(result.value)
  /\ fs[result.value] = Artifact(result.url)

\* C3: get_ik_solver never returns a hyper-parameter object that carries a
\* key which is no declared field of the record.
C3_UnknownFieldsRejected ==
  (result.kind = "returned" /\ result.fn = "get_ik_solver")
     => DOMAIN result.hp \subseteq DeclaredFields

\* C4: whatever step of get_ik_solver fails, the error that leaves it is a
\* ModelResolutionError.
C4_ClosedErrorSurface ==
  (result.kind = "raised" /\ result.fn = "get_ik_solver")
     => result.value = "ModelResolutionError"

\* ------------------------------------------------------ Part B: claims
\* the job indices a job array hands out, as SLURM_ARRAY_TASK_ID spells them
JobIndexValues ==
  { e \in EnvValues : e.set /\ ParseInt(e.s).ok /\ ParseInt(e.s).v >= 0 }

\* the seconds the staggering block delays a run whose variable holds e
Delay(e) == IF Stagger(e).sleeps = <<>> THEN 0 ELSE Stagger(e).sleeps[1]

\* the run got past the statement groups that can fail for reasons of its
\* inputs: the robot is known and the job index is absent or well-formed
UsableInputs ==
  /\ args["robot"] \in KnownRobots
  /\ (env = EnvUnset \/ env \in JobIndexValues)

Count(seq, x) == Cardinality({ i \in 1..Len(seq) : seq[i] = x })

\* C5: a run whose model_type is "mdn" ends on the unimplemented assertion,
\* and one whose model_type is neither "ikflow" nor "mdn" on the assertion
\* before it, with no settings record built, no robot looked up, no sleep
\* and no training call; neither goes on as the ikflow variant does.
C5_UnimplementedVariantFailsFast ==
  (tpc # "check" /\ args["model_type"] # "ikflow") =>
     /\ tpc = "exit"
     /\ args["model_type"] = "mdn"
          => error = "AssertionError: Training with mdn is currently unimplemented"
     /\ args["model_type"] # "mdn" => error = "AssertionError"
     /\ logging_settings = Unset
     /\ eval_settings = Unset
     /\ save_settings = Unset
     /\ robot_model = None
     /\ events = <<>>
     /\ sleeps = <<>>

\* an mdn run has been rejected
C5_Witness ==
  /\ tpc = "exit"
  /\ args["model_type"] = "mdn"
  /\ error = "AssertionError: Training with mdn is currently unimplemented"

\* C7: once the settings are built, a smoke-test run has the fixed periods
\* 50 / 250 / 100 whatever the cadence flags say and has saving switched
\* off; any other run has the periods and both save thresholds of its flags
\* and saving switched on.
C7_SmokeTestOverrides ==
  tpc \in {"robot", "config", "exit"} /\ logging_settings # Unset =>
    IF args["smoke_test"]
    THEN /\ logging_settings.log_loss_every_k = SMOKE_LOG_LOSS_EVERY_K
         /\ logging_settings.eval_every_k = SMOKE_EVAL_EVERY_K
         /\ logging_settings.log_dist_plot_every = SMOKE_LOG_DIST_PLOT_EVERY
         /\ save_settings.save_model = FALSE
    ELSE /\ logging_settings.log_loss_every_k = args["log_training_stats_every"]
         /\ logging_settings.eval_every_k = args["eval_every_k"]
         /\ logging_settings.log_dist_plot_every = args["log_dist_plot_every"]
         /\ save_settings.save_model = TRUE
         /\ save_settings.save_if_mean_l2_error_below
              = args["save_if_mean_l2_error_below"]
         /\ save_settings.save_if_mean_angular_error_below
              = args["save_if_mean_angular_error_below"]

\* a smoke-test run whose cadence flags all differ from the smoke periods
C7_Witness ==
  /\ tpc = "robot"
  /\ args["smoke_test"]
  /\ args["log_training_stats_every"] # SMOKE_LOG_LOSS_EVERY_K
  /\ args["eval_every_k"] # SMOKE_EVAL_EVERY_K
  /\ args["log_dist_plot_every"] # SMOKE_LOG_DIST_PLOT_EVERY
  /\ logging_settings.eval_every_k = SMOKE_EVAL_EVERY_K
  /\ save_settings.save_model = FALSE

\* C6: the delay is non-decreasing in the job index, it is zero and no
\* error when the variable is absent, and a run without the variable goes
\* on to call train.
C6_StaggerMonotoneAndOptional ==
  /\ \A e1, e2 \in JobIndexValues :
       ParseInt(e1.s).v <= ParseInt(e2.s).v => Delay(e1) <= Delay(e2)
  /\ Delay(EnvUnset) = 0
  /\ Stagger(EnvUnset).error = None
  /\ (tpc = "exit" /\ env = EnvUnset /\ args["model_type"] = "ikflow"
        /\ args["robot"] \in KnownRobots)
       => (error = None /\ Count(events, "train") = 1)

\* C8: in a run that has a job index, the sleep happens at most once and
\* every robot lookup, model construction and training call comes after it.
C8_StaggerFirstAndOnce ==
  env \in JobIndexValues =>
    /\ Len(sleeps) <= 1
    /\ Count(events, "sleep") <= 1
    /\ \A i \in 1..Len(events) :
         events[i] \in {"get_robot", "IkflowModel", "train"}
           => \E j \in 1..(i - 1) : events[j] = "sleep"

\* C10: a run with model_type ikflow and usable inputs ends without an
\* error, having called train exactly once.
C10_IkflowRunReachesTraining ==
  (tpc = "exit" /\ args["model_type"] = "ikflow" /\ UsableInputs)
     => (error = None /\ Count(events, "train") = 1)

====
